---- MODULE Spec2Model ----
(***************************************************************************)
(* Model of the Jabba chatbot core: the Session entity and store           *)
(* (src/src/Session.model.ts) and the turn dispatcher with its middleware  *)
(* pipeline (src/src/Chatbot.ts).                                          *)
(*                                                                         *)
(* Every suspension point of the code (a request to the session backend,   *)
(* a middleware's own asynchronous work) is a separate action, so turns    *)
(* that are in flight together interleave at exactly those points.         *)
(***************************************************************************)
EXTENDS Integers, Sequences, FiniteSets, TLC

\* ------------------------------------------------------------------ bounds
MaxTurns     == 2   \* onMessage calls in flight together
MaxMessages  == 3   \* onMessage calls made in one behaviour
MaxPipeline  == 3   \* middlewares registered with use()
MaxNextCalls == 2   \* calls of next made by one middleware invocation
MaxTime      == 2   \* ticks of the clock in one behaviour
MaxEntryCalls == 2  \* botHostingEntrypoint calls in flight together

\* A behaviour explores one shape of load, fixed at its start.
\*   chain: one turn at a time, of one conversation, through a long pipeline
\*          whose middlewares may call next repeatedly, await it or not, and
\*          fail, and leave the session alone;
\*   store: several turns in flight together, of either conversation, through
\*          a pipeline of one middleware that may assign and save the session;
\*   clock: one turn at a time, of one conversation, through a pipeline of one
\*          middleware that may save the session, while time passes;
\*   cross: several turns in flight together, of either conversation, through
\*          a pipeline whose middlewares may call next once and leave the
\*          session alone.
\* Time stands still in all but the clock shape.
ChainShape ==
  [turns |-> 1, pipe |-> MaxPipeline, calls |-> MaxNextCalls, writes |-> FALSE,
   fails |-> TRUE, fns |-> {"f", "g"}, convs |-> {"u"}, clock |-> FALSE]
StoreShape ==
  [turns |-> MaxTurns, pipe |-> 1, calls |-> 0, writes |-> TRUE,
   fails |-> FALSE, fns |-> {"f"}, convs |-> {"u", "v"}, clock |-> FALSE]
ClockShape ==
  [turns |-> 1, pipe |-> 1, calls |-> 0, writes |-> TRUE,
   fails |-> FALSE, fns |-> {"f"}, convs |-> {"u"}, clock |-> TRUE]
CrossShape ==
  [turns |-> MaxTurns, pipe |-> MaxPipeline - 1, calls |-> 1, writes |-> FALSE,
   fails |-> FALSE, fns |-> {"f"}, convs |-> {"u", "v"}, clock |-> FALSE]
Shapes == {ChainShape, StoreShape, ClockShape, CrossShape}

Turns        == 1..MaxTurns
ConvIds      == {"u", "v"}          \* message.conversationId
Middlewares  == {"f", "g"}          \* middleware functions handed to use()
AssignValues == {-1, 3}             \* n in session.consecutiveNotUnderstand = n

\* ------------------------------------------------------- JavaScript values
\* A property that was never set reads as undefined; arithmetic on it is NaN.
Undefined == [kind |-> "undefined"]
NaN       == [kind |-> "NaN"]
Num(n)    == [kind |-> "number", val |-> n]

\* v++ : ToNumber(v) + 1
PostIncrement(v) == IF v.kind = "number" THEN Num(v.val + 1) ELSE NaN

\* Math.min on two numbers
MathMin(a, b) == IF a <= b THEN a ELSE b

\* a botHostingEntrypoint call that has not been made
IdleEntry ==
  [pc   |-> "idle",
   body |-> "none",   \* which of body.message and body.text are set
   nlu  |-> "none",   \* how converseText settled
   log  |-> <<>>]     \* the invocations of callback, in order, by their form

VARIABLES
  mongo,      \* config.mongo: "absent", or "enabled" (descriptor with enabled = true)
  pipeline,   \* this.middlewarePipeline
  store,      \* the sessions collection, in insertion order; the index is the _id
  turn,       \* per onMessage call: its closure (ctx, currentMiddlewareIndex, promises)
  hist,       \* per onMessage call: what it did and saw (observation only)
  raced,      \* per conversation id: two findOrCreateById calls of it overlapped
  savedIds,   \* per conversation id: the _ids a dispatcher save has written
  shape,      \* the shape of load of this behaviour (never changes)
  messages,   \* onMessage calls made so far
  saveCount,  \* per conversation id: dispatcher saves that succeeded (observation)
  now,        \* the clock new Date() reads
  entry       \* the botHostingEntrypoint call in progress

vars == <<mongo, pipeline, store, turn, hist, raced, savedIds, shape, messages,
          saveCount, now, entry>>

\* one invocation slot per pipeline index of a turn
\* status: idle (never invoked), running, waiting (suspended on the promise of
\* its latest next()), done (its promise resolved), failed (its promise rejected)
IdleFrame ==
  [status       |-> "idle",
   calls        |-> 0,      \* calls of next it has made
   runs         |-> 0,      \* times the index was invoked in this turn
   startedAt    |-> 0,      \* which call of next, counted per caller, invoked it
   waitsFor     |-> 0,      \* the index whose promise it awaits, or 0
   fn           |-> "none", \* the middleware function invoked
   seq          |-> 0,      \* its place in the order of invocations of the turn
   msg          |-> "none", \* ctx.message.conversationId of the ctx it was handed
   session      |-> 0,      \* ctx.session of the ctx it was handed (0: unset)
   afterFailure |-> FALSE]  \* a middleware of the turn had failed when it was invoked

NewTurn ==
  [pc           |-> "idle",
   conv         |-> "u",
   res          |-> 0,          \* what findOne answered: 0 is null, else the _id
   docId        |-> 0,          \* ctx.session's document; 0 while ctx.session is unset
   cnu          |-> 0,          \* document.consecutiveNotUnderstand, in memory
   prev         |-> Undefined,  \* session._previousNotUnderstand
   messageCount |-> Undefined,  \* session.messageCount
   idx          |-> 0,          \* currentMiddlewareIndex
   frames       |-> [i \in 1..MaxPipeline |-> IdleFrame]]

NewHist ==
  [enabledAtStart |-> FALSE,    \* isMongoEnabled() when onMessage was called
   usedStore      |-> FALSE,    \* the turn issued a find, create or save
   existedAtFind  |-> FALSE,    \* a record of the id existed when findOne ran
   created        |-> 0,        \* _id of the record this turn created, or 0
   readCnu        |-> 0,        \* the counter in the record as resolved
   before         |-> Undefined,\* persisted messageCount of the record as resolved
   storeAtReset   |-> 0,        \* the counter in the store when the reset ran
   interfered     |-> FALSE,    \* another turn saved the record between read and reset
   savedAtStart   |-> {},       \* savedIds of the id when onMessage was called
   fresh          |-> TRUE,     \* findOne answered the record those saves wrote
   pipeAtDispatch |-> -1,       \* length of the pipeline at the dispatcher's
                                \* execNextMiddleware(), -1 before it
   hadMiddleware  |-> FALSE,    \* the pipeline was not empty at the dispatcher's
                                \* execNextMiddleware()
   firstSaw       |-> Undefined,\* what the first middleware found on invocation
   saves          |-> 0]        \* dispatcher saves of this turn that succeeded

\* ------------------------------------------------------------ Session.model
\* sessionSchema: the fields a persisted record has; Session.create sets both
\* dates from new Date()
Record(c, n) ==
  [conversationId |-> c, consecutiveNotUnderstand |-> n,
   createdAt |-> now, updatedAt |-> now]

\* `this` inside the pre('save') hook: the hook is an arrow function, so it is
\* the `this` of the module and not the document being saved
HookThis == [exports |-> "module"]

\* sessionSchema.pre('save'): what the hook makes of the document doc
PreSave(self, doc) ==
  IF "_doc" \in DOMAIN self
    THEN [doc EXCEPT !.updatedAt = now]
    ELSE doc

\* a field the schema lacks is absent from every persisted record
PersistedMessageCount(rec) ==
  IF "messageCount" \in DOMAIN rec THEN Num(rec.messageCount) ELSE Undefined

\* set consecutiveNotUnderstand(n)
SetConsecutiveNotUnderstand(n) == MathMin(n, 2)

\* a query that matches no record, whatever the collection holds
MatchingNone(c) == {}

\* SessionModel.findOne({ conversationId }): the records the query matches
Matching(c) == {i \in 1..Len(store) : store[i].conversationId = c}

\* a save that writes the snapshot along with the schema's fields
SavedRecordWithSnapshot(r) ==
  [conversationId           |-> store[r.docId].conversationId,
   consecutiveNotUnderstand |-> r.cnu,
   createdAt                |-> store[r.docId].createdAt,
   updatedAt                |-> store[r.docId].updatedAt,
   previousNotUnderstand    |-> r.prev]

\* document.save(): the record written for the in-memory document, whose
\* dates are those it was loaded with
SavedRecord(r) ==
  PreSave(HookThis, [store[r.docId] EXCEPT !.consecutiveNotUnderstand = r.cnu])

\* --------------------------------------------------------------- Chatbot
\* persistence taken as enabled whatever config.mongo holds
IsMongoEnabledAlways == mongo \in {"absent", "enabled"}

\* isMongoEnabled()
IsMongoEnabled == mongo = "enabled"

\* the largest of a set of naturals
Max(S) == CHOOSE x \in S : \A y \in S : y <= x

\* execNextMiddleware with one index shared by all the calls of onMessage
ExecNextMiddlewareShared(r, by) ==
  LET g == Max({turn[u].idx : u \in Turns}) IN
  IF g < Len(pipeline)
    THEN [r EXCEPT !.idx = g + 1,
                   !.frames[g + 1] =
                      [status |-> "running", calls |-> 0,
                       runs |-> @.runs + 1, startedAt |-> by, waitsFor |-> 0,
                       fn |-> pipeline[g + 1],
                       seq |-> 1 + Cardinality({k \in 1..MaxPipeline :
                                                 r.frames[k].runs > 0}),
                       msg |-> r.conv, session |-> r.docId,
                       afterFailure |->
                         \E k \in 1..MaxPipeline : r.frames[k].status = "failed"]]
    ELSE r

\* execNextMiddleware, called for the `by`-th time by its caller
\* (0: by onMessage itself)
ExecNextMiddleware(r, by) ==
  IF r.idx < Len(pipeline)
    THEN [r EXCEPT !.idx = @ + 1,
                   !.frames[r.idx + 1] =
                      [status |-> "running", calls |-> 0,
                       runs |-> @.runs + 1, startedAt |-> by, waitsFor |-> 0,
                       fn |-> pipeline[r.idx + 1],
                       seq |-> 1 + Cardinality({k \in 1..MaxPipeline :
                                                 r.frames[k].runs > 0}),
                       msg |-> r.conv, session |-> r.docId,
                       afterFailure |->
                         \E k \in 1..MaxPipeline : r.frames[k].status = "failed"]]
    ELSE r

\* the promise onMessage returns follows the one its own execNextMiddleware() returned
AfterDispatch(r) ==
  LET q == ExecNextMiddleware(r, 0)
  IN  [q EXCEPT !.pc = IF q.idx = r.idx THEN "done" ELSE "chain"]

Init ==
  /\ mongo \in {"absent", "enabled"}
  /\ pipeline = <<>>
  /\ store = <<>>
  /\ turn = [t \in Turns |-> NewTurn]
  /\ hist = [t \in Turns |-> NewHist]
  /\ raced = [c \in ConvIds |-> FALSE]
  /\ savedIds = [c \in ConvIds |-> {}]
  /\ shape \in Shapes
  /\ messages = 0
  /\ saveCount = [c \in ConvIds |-> 0]
  /\ now = 0
  /\ entry = [k \in 1..MaxEntryCalls |-> IdleEntry]

\* a registration that puts the middleware at the head of the list
UsePrepend(m) ==
  /\ Len(pipeline) < shape.pipe
  /\ m \in shape.fns
  /\ pipeline' = <<m>> \o pipeline
  /\ UNCHANGED <<mongo, store, turn, hist, raced, savedIds, shape, messages,
               saveCount, now, entry>>

\* use(middleware)
Use(m) ==
  /\ Len(pipeline) < shape.pipe
  /\ m \in shape.fns
  /\ pipeline' = Append(pipeline, m)
  /\ UNCHANGED <<mongo, store, turn, hist, raced, savedIds, shape, messages,
               saveCount, now, entry>>

\* connectToMongo(config); a repeated call leaves config.mongo.enabled as it is
ConnectToMongo ==
  /\ mongo = "absent"
  /\ mongo' = "enabled"
  /\ UNCHANGED <<pipeline, store, turn, hist, raced, savedIds, shape, messages,
               saveCount, now, entry>>

\* turn u is inside findOrCreateById(c): called, its promise not yet settled
Resolving(u, c) ==
  /\ turn[u].conv = c
  /\ turn[u].pc \in {"finding", "found", "creating", "created"}

\* the middleware invocations of turn t that have not returned
Running(t) == {i \in 1..MaxPipeline : turn[t].frames[i].status = "running"}

\* the middleware invocations of turn t suspended on the promise of a next()
Waiting(t) == {i \in 1..MaxPipeline : turn[t].frames[i].status = "waiting"}

\* slot t holds no call, or one that has settled and whose middlewares have all
\* settled: nothing of it can run any more
Free(t) ==
  \/ turn[t].pc = "idle"
  \/ turn[t].pc \in {"done", "failed"} /\ Running(t) \cup Waiting(t) = {}

\* onMessage(message), up to its first suspension point
OnMessage(t, c) ==
  /\ Free(t)
  /\ c \in shape.convs
  /\ t <= shape.turns
  /\ t > 1 => turn[t - 1].pc # "idle"
  /\ messages < MaxMessages
  /\ messages' = messages + 1
  /\ hist' = [hist EXCEPT ![t] = [NewHist EXCEPT
                  !.enabledAtStart = (mongo = "enabled"),
                  !.usedStore = IsMongoEnabled,
                  !.savedAtStart = savedIds[c],
                  !.pipeAtDispatch = IF IsMongoEnabled THEN -1 ELSE Len(pipeline),
                  !.hadMiddleware = ~IsMongoEnabled /\ Len(pipeline) > 0]]
  /\ turn' = [turn EXCEPT ![t] =
       IF IsMongoEnabled
         THEN [NewTurn EXCEPT !.conv = c, !.pc = "finding"]
         ELSE AfterDispatch([NewTurn EXCEPT !.conv = c])]
  /\ raced' = [raced EXCEPT ![c] =
       @ \/ (IsMongoEnabled /\ \E u \in Turns \ {t} : Resolving(u, c))]
  /\ UNCHANGED <<mongo, pipeline, store, savedIds, shape,
               saveCount, now, entry>>

\* SessionModel.findOne({ conversationId }) as the backend answers it
FindOne(t) ==
  LET r == turn[t]
      M == Matching(r.conv)
  IN
  /\ r.pc = "finding"
  /\ IF M = {}
       THEN \* null: the callback calls this.create(conversationId)
            /\ turn' = [turn EXCEPT ![t].pc = "creating", ![t].res = 0]
            /\ hist' = [hist EXCEPT ![t].existedAtFind = FALSE,
                                    ![t].fresh = (hist[t].savedAtStart = {})]
       ELSE \E i \in M :
            /\ turn' = [turn EXCEPT ![t].pc = "found", ![t].res = i,
                          ![t].cnu = store[i].consecutiveNotUnderstand]
            /\ hist' = [hist EXCEPT
                          ![t].existedAtFind = TRUE,
                          ![t].readCnu = store[i].consecutiveNotUnderstand,
                          ![t].before = PersistedMessageCount(store[i]),
                          ![t].fresh = (hist[t].savedAtStart \subseteq {i})]
  /\ UNCHANGED <<mongo, pipeline, store, raced, savedIds, shape, messages,
               saveCount, now, entry>>

\* the chain started also on a rejection
RejectedThenDispatched(r) == AfterDispatch(r)

\* a rejected promise skips every then-callback chained on it
Rejected(r) == [r EXCEPT !.pc = "failed"]

\* the backend fails the findOne
FindOneFail(t) ==
  /\ turn[t].pc = "finding"
  /\ turn' = [turn EXCEPT ![t] = Rejected(@)]
  /\ UNCHANGED <<mongo, pipeline, store, hist, raced, savedIds, shape, messages,
               saveCount, now, entry>>

\* SessionModel.create(instance) as the backend performs it
Create(t) ==
  LET r == turn[t]
      id == Len(store) + 1
  IN
  /\ r.pc = "creating"
  /\ store' = Append(store, PreSave(HookThis, Record(r.conv, 0)))
  /\ turn' = [turn EXCEPT ![t].pc = "created", ![t].res = id, ![t].cnu = 0]
  /\ hist' = [hist EXCEPT ![t].created = id, ![t].readCnu = 0,
                          ![t].before = PersistedMessageCount(Record(r.conv, 0))]
  /\ UNCHANGED <<mongo, pipeline, raced, savedIds, shape, messages,
               saveCount, now, entry>>

\* the backend fails the create
CreateFail(t) ==
  /\ turn[t].pc = "creating"
  /\ turn' = [turn EXCEPT ![t] = Rejected(@)]
  /\ UNCHANGED <<mongo, pipeline, store, hist, raced, savedIds, shape, messages,
               saveCount, now, entry>>

\* the snapshot taken after the reset instead of before it
UpdateSessionSnapshotLate(r) ==
  LET a == [r EXCEPT !.docId = r.res]
      b == [a EXCEPT !.cnu = SetConsecutiveNotUnderstand(0)]
      c == [b EXCEPT !.prev = Num(b.cnu)]
  IN  [c EXCEPT !.messageCount = PostIncrement(@), !.pc = "saving"]

\* onMessage's callback on the resolved session, up to the call of save()
UpdateSession(r) ==
  LET a == [r EXCEPT !.docId = r.res]
      b == [a EXCEPT !.prev = Num(a.cnu)]
      c == [b EXCEPT !.cnu = SetConsecutiveNotUnderstand(0)]
  IN  [c EXCEPT !.messageCount = PostIncrement(@), !.pc = "saving"]

OnSession(t) ==
  LET r == turn[t] IN
  /\ r.pc \in {"found", "created"}
  /\ turn' = [turn EXCEPT ![t] = UpdateSession(r)]
  /\ hist' = [hist EXCEPT
                ![t].storeAtReset = store[r.res].consecutiveNotUnderstand]
  /\ UNCHANGED <<mongo, pipeline, store, raced, savedIds, shape, messages,
               saveCount, now, entry>>

\* a save of record id by turn t lands between another turn's read and its reset
Interfere(h, t, id) ==
  [x \in Turns |->
     IF x # t /\ turn[x].pc \in {"found", "created"} /\ turn[x].res = id
       THEN [h[x] EXCEPT !.interfered = TRUE]
       ELSE h[x]]

\* what a middleware finds in ctx.session when it is invoked
Seen(r) == [prev |-> r.prev, cnu |-> r.cnu]

\* session.save() of the dispatcher as the backend performs it, and the
\* callback chained on it: execNextMiddleware()
Save(t) ==
  LET r == turn[t]
      q == AfterDispatch(r)
  IN
  /\ r.pc = "saving"
  /\ store' = [store EXCEPT ![r.docId] = SavedRecord(r)]
  /\ turn' = [turn EXCEPT ![t] = q]
  /\ hist' = Interfere([hist EXCEPT
                ![t].saves = 1,
                ![t].pipeAtDispatch = Len(pipeline),
                ![t].hadMiddleware = Len(pipeline) > 0,
                ![t].firstSaw = IF q.frames[1].runs > 0 THEN Seen(q) ELSE @],
              t, r.docId)
  /\ savedIds' = [savedIds EXCEPT ![r.conv] = @ \cup {r.docId}]
  /\ saveCount' = [saveCount EXCEPT ![r.conv] = @ + 1]
  /\ UNCHANGED <<mongo, pipeline, raced, shape, messages, now, entry>>

\* the backend fails the dispatcher's save
SaveFail(t) ==
  /\ turn[t].pc = "saving"
  /\ turn' = [turn EXCEPT ![t] = Rejected(@)]
  /\ UNCHANGED <<mongo, pipeline, store, hist, raced, savedIds, shape, messages,
               saveCount, now, entry>>

\* ------------------------------------------------------------ middlewares
\* A middleware is arbitrary user code: while it runs it may call next, assign
\* the session counter, save the session, and return, in any order.

\* the middleware at index i calls next(); with w it suspends on the promise
\* returned (await next(), return next()), otherwise it lets the promise float
MwNext(t, i, w) ==
  LET r == turn[t]
      n == r.frames[i].calls + 1
      q == ExecNextMiddleware([r EXCEPT !.frames[i].calls = n], n)
  IN
  /\ i \in Running(t)
  /\ n <= shape.calls
  /\ turn' = [turn EXCEPT ![t] =
       IF w /\ q.idx > r.idx
         THEN [q EXCEPT !.frames[i].status = "waiting",
                        !.frames[i].waitsFor = q.idx]
         ELSE q]
  /\ UNCHANGED <<mongo, pipeline, store, hist, raced, savedIds, shape, messages,
               saveCount, now, entry>>

\* the promise onMessage returned settles as the promise of index 0 does
Settle(r, i, how) ==
  [r EXCEPT !.frames[i].status = how, !.frames[i].waitsFor = 0,
            !.pc = IF i = 1 /\ @ = "chain" THEN how ELSE @]

\* the awaited promise resolved: the middleware at index i goes on
MwResume(t, i) ==
  LET r == turn[t] IN
  /\ i \in Waiting(t)
  /\ r.frames[r.frames[i].waitsFor].status = "done"
  /\ turn' = [turn EXCEPT ![t].frames[i].status = "running",
                          ![t].frames[i].waitsFor = 0]
  /\ UNCHANGED <<mongo, pipeline, store, hist, raced, savedIds, shape, messages,
               saveCount, now, entry>>

\* the awaited promise rejected and the middleware at index i does not catch:
\* its own promise rejects
MwRethrow(t, i) ==
  LET r == turn[t] IN
  /\ i \in Waiting(t)
  /\ r.frames[r.frames[i].waitsFor].status = "failed"
  /\ turn' = [turn EXCEPT ![t] = Settle(r, i, "failed")]
  /\ UNCHANGED <<mongo, pipeline, store, hist, raced, savedIds, shape, messages,
               saveCount, now, entry>>

\* the awaited promise rejected and the middleware at index i catches it
MwCatch(t, i) ==
  LET r == turn[t] IN
  /\ i \in Waiting(t)
  /\ r.frames[r.frames[i].waitsFor].status = "failed"
  /\ turn' = [turn EXCEPT ![t].frames[i].status = "running",
                          ![t].frames[i].waitsFor = 0]
  /\ UNCHANGED <<mongo, pipeline, store, hist, raced, savedIds, shape, messages,
               saveCount, now, entry>>

\* the middleware at index i fails (throws, or a save of its own rejects)
MwThrow(t, i) ==
  /\ shape.fails
  /\ i \in Running(t)
  /\ turn' = [turn EXCEPT ![t] = Settle(turn[t], i, "failed")]
  /\ UNCHANGED <<mongo, pipeline, store, hist, raced, savedIds, shape, messages,
               saveCount, now, entry>>

\* a running middleware executes ctx.session.consecutiveNotUnderstand = n
MwAssign(t, n) ==
  /\ shape.writes
  /\ Running(t) # {}
  /\ turn[t].docId # 0
  /\ turn' = [turn EXCEPT ![t].cnu = SetConsecutiveNotUnderstand(n)]
  /\ UNCHANGED <<mongo, pipeline, store, hist, raced, savedIds, shape, messages,
               saveCount, now, entry>>

\* a running middleware executes ctx.session.save()
MwSave(t) ==
  LET r == turn[t] IN
  /\ shape.writes
  /\ Running(t) # {}
  /\ r.docId # 0
  /\ store' = [store EXCEPT ![r.docId] = SavedRecord(r)]
  /\ hist' = Interfere([hist EXCEPT ![t].usedStore = TRUE], t, r.docId)
  /\ UNCHANGED <<mongo, pipeline, turn, raced, savedIds, shape, messages,
               saveCount, now, entry>>

\* the middleware at index i returns (its promise resolves); the promise of
\* index 0 is the one onMessage returned
MwReturn(t, i) ==
  /\ i \in Running(t)
  /\ turn' = [turn EXCEPT ![t] = Settle(turn[t], i, "done")]
  /\ UNCHANGED <<mongo, pipeline, store, hist, raced, savedIds, shape, messages,
               saveCount, now, entry>>

\* time passes
Tick ==
  /\ shape.clock
  /\ now < MaxTime
  /\ now' = now + 1
  /\ UNCHANGED <<mongo, pipeline, store, turn, hist, raced, savedIds, shape,
               messages, saveCount, entry>>

Next ==
  \/ Tick
  \/ \E m \in Middlewares : Use(m)
  \/ ConnectToMongo
  \/ \E t \in Turns, c \in ConvIds : OnMessage(t, c)
  \/ \E t \in Turns : FindOne(t) \/ FindOneFail(t)
  \/ \E t \in Turns : Create(t) \/ CreateFail(t) \/ OnSession(t)
  \/ \E t \in Turns : Save(t) \/ SaveFail(t)
  \/ \E t \in Turns, i \in 1..MaxPipeline, w \in BOOLEAN : MwNext(t, i, w)
  \/ \E t \in Turns, i \in 1..MaxPipeline : MwReturn(t, i) \/ MwThrow(t, i)
  \/ \E t \in Turns, i \in 1..MaxPipeline :
       MwResume(t, i) \/ MwRethrow(t, i) \/ MwCatch(t, i)
  \/ \E t \in Turns, n \in AssignValues : MwAssign(t, n)
  \/ \E t \in Turns : MwSave(t)

Spec == Init /\ [][Next]_vars

\* ------------------------------------------------- botHostingEntrypoint
Bodies     == {"message", "text", "both", "none"}
NluResults == {"null", "empty", "reply"}   \* what converseText resolves with

\* callback(...) called inside the try block: when the callback throws, the
\* catch block calls it again with the error
Callback(log, form, throws) ==
  IF throws THEN log \o <<form, "error">> ELSE log \o <<form>>

\* res.reply()
Reply(res) == IF res = "reply" THEN "some text" ELSE ""

\* the text branch once converseText has resolved with res: the form of the
\* callback's invocation. Reading res.conversationToken of a null res throws
\* while the arguments are built, and the catch block reports the error.
AfterConverse(res) ==
  IF res # "null" /\ Reply(res) # ""
    THEN "reply"
    ELSE IF res = "null" THEN "error" ELSE "noReply"

\* botHostingEntrypoint(body, response, callback), up to its first await.
\* With body.message set the body is handed to the SDK's handleMessage, which
\* calls onMessage later, for each message it holds.
BotHostingEntrypoint(k, b, throws) ==
  /\ entry[k].pc = "idle"
  /\ k > 1 => entry[k - 1].pc # "idle"
  /\ entry' = [entry EXCEPT ![k] =
       IF b \in {"message", "both"}
         THEN [@ EXCEPT !.body = b, !.pc = "done",
                        !.log = Callback(@, "answered", throws)]
         ELSE IF b = "text"
           THEN [@ EXCEPT !.body = b, !.pc = "awaiting"]
           ELSE [@ EXCEPT !.body = b, !.pc = "done",
                          !.log = Callback(@, "error", throws)]]
  /\ UNCHANGED <<mongo, pipeline, store, turn, hist, raced, savedIds, shape,
               messages, saveCount, now>>

\* converseText resolves with res
ConverseResolves(k, res, throws) ==
  LET form == AfterConverse(res) IN
  /\ entry[k].pc = "awaiting"
  /\ entry' = [entry EXCEPT ![k] =
       IF form = "error"
         THEN [@ EXCEPT !.nlu = res, !.log = @ \o <<"error">>,
                        !.pc = IF throws THEN "rejected" ELSE "done"]
         ELSE [@ EXCEPT !.nlu = res, !.pc = "done",
                        !.log = Callback(@, form, throws)]]
  /\ UNCHANGED <<mongo, pipeline, store, turn, hist, raced, savedIds, shape,
               messages, saveCount, now>>

\* converseText rejects: the catch block reports the error
ConverseRejects(k, throws) ==
  /\ entry[k].pc = "awaiting"
  /\ entry' = [entry EXCEPT ![k] =
       [@ EXCEPT !.nlu = "threw", !.log = @ \o <<"error">>,
                 !.pc = IF throws THEN "rejected" ELSE "done"]]
  /\ UNCHANGED <<mongo, pipeline, store, turn, hist, raced, savedIds, shape,
               messages, saveCount, now>>

InitEntry == Init /\ mongo = "absent" /\ shape = ChainShape

NextEntry ==
  \/ \E k \in 1..MaxEntryCalls, b \in Bodies, throws \in BOOLEAN :
       BotHostingEntrypoint(k, b, throws)
  \/ \E k \in 1..MaxEntryCalls, res \in NluResults, throws \in BOOLEAN :
       ConverseResolves(k, res, throws)
  \/ \E k \in 1..MaxEntryCalls, throws \in BOOLEAN : ConverseRejects(k, throws)

SpecEntry == InitEntry /\ [][NextEntry]_vars

\* ------------------------------------------------------------------ claims
Sessions == {t \in Turns : turn[t].docId # 0}

\* C1: every conversation id has at most one record in the store, and exactly
\* one once a turn holds a session for it, however the find and create steps
\* of concurrent first turns interleave.
C1_OneRecordPerConversation ==
  /\ \A c \in ConvIds : Cardinality(Matching(c)) <= 1
  /\ \A t \in Sessions : Cardinality(Matching(turn[t].conv)) = 1

\* C2: every assignment consecutiveNotUnderstand = n, by the dispatcher or by a
\* middleware, leaves a value within 0..2: min(n, 2) for n >= 0, and never a
\* negative one.
C2_CounterWithinRange ==
  [][\A t \in Turns :
       /\ OnSession(t) => turn'[t].cnu = 0
       /\ \A n \in AssignValues :
            MwAssign(t, n) =>
              /\ turn'[t].cnu \in 0..2
              /\ n >= 0 => turn'[t].cnu = MathMin(n, 2)]_vars

\* C3: a persistence-enabled turn whose dispatcher save has not succeeded has
\* started no middleware and has not resolved; once its resolution or save
\* failed it stays so.
C3_NoChainWithoutSave ==
  \A t \in Turns :
    hist[t].enabledAtStart /\ hist[t].saves = 0 =>
      /\ \A i \in 1..MaxPipeline : turn[t].frames[i].runs = 0
      /\ turn[t].idx = 0
      /\ turn[t].pc \notin {"chain", "done"}

\* a turn failed at its save, after its session was resolved, with a middleware
\* registered that then did not run
C3_Witness ==
  \E t \in Turns :
    /\ hist[t].enabledAtStart /\ turn[t].pc = "failed"
    /\ turn[t].docId # 0 /\ Len(pipeline) > 0

\* C4: when a persistence-enabled turn has resolved, the persisted messageCount
\* of its record is a number, 1 more than the persisted value the turn
\* resolved (0 for a record created in the turn).
C4_MessageCountPersisted ==
  \A t \in Turns :
    hist[t].enabledAtStart /\ turn[t].pc = "done" =>
      LET before == IF hist[t].created # 0 THEN Num(0) ELSE hist[t].before
          after  == PersistedMessageCount(store[turn[t].docId])
      IN  after.kind = "number" /\ after = PostIncrement(before)

C6_ShortCircuit ==
  \A t \in Turns : \A i, j \in 1..MaxPipeline :
    i < j /\ turn[t].frames[i].status = "done" /\ turn[t].frames[i].calls = 0
      => turn[t].frames[j].runs = 0

\* C7: every pipeline index is invoked at most once per turn, and none is
\* started by a second or later call of next.
C7_NextReentrancy ==
  \A t \in Turns : \A j \in 1..MaxPipeline :
    turn[t].frames[j].runs <= 1 /\ turn[t].frames[j].startedAt <= 1

\* C8: a turn begun with persistence disabled issues no store operation, has
\* no session in its context, and has run execNextMiddleware from index 0:
\* the first middleware was started by the dispatcher if one was registered,
\* and the turn resolved at once if none was.
C8_DisabledSkipsStore ==
  \A t \in Turns :
    turn[t].pc # "idle" /\ ~hist[t].enabledAtStart =>
      /\ ~hist[t].usedStore
      /\ turn[t].docId = 0 /\ turn[t].prev = Undefined
      /\ turn[t].pc \in {"chain", "done", "failed"}
      /\ IF hist[t].hadMiddleware
           THEN turn[t].frames[1].runs = 1 /\ turn[t].frames[1].startedAt = 0
           ELSE turn[t].idx = 0 /\ turn[t].pc = "done"

\* a turn without persistence whose first middleware is running while the
\* store is still empty
C8_Witness ==
  \E t \in Turns :
    /\ ~hist[t].enabledAtStart /\ turn[t].pc = "chain"
    /\ turn[t].frames[1].status = "running" /\ store = <<>>

\* C9: a findOrCreateById whose findOne ran when a record of the id existed
\* creates nothing and resolves a record of that id; and while no two
\* resolutions of an id have overlapped, the id has at most one record.
C9_SequentialFindOrCreate ==
  /\ \A t \in Turns :
       /\ hist[t].existedAtFind => hist[t].created = 0
       /\ turn[t].docId # 0 =>
            /\ turn[t].docId \in Matching(turn[t].conv)
            /\ hist[t].created \in {0, turn[t].docId}
  /\ \A c \in ConvIds : ~raced[c] => Cardinality(Matching(c)) <= 1

\* two turns of one id, never overlapping in their resolution: the first
\* created the record, the second found that same record
C9_Witness ==
  \E t, u \in Sessions :
    /\ t # u /\ turn[t].conv = turn[u].conv /\ ~raced[turn[t].conv]
    /\ hist[t].created = turn[t].docId
    /\ hist[u].existedAtFind /\ turn[u].docId = turn[t].docId

\* C10: a turn resolves the record that every dispatcher save of its id,
\* completed before the turn began, has written; and a turn's session is a
\* record of its own conversation id.
C10_ReadsFollowWrites ==
  \A t \in Turns :
    /\ hist[t].fresh
    /\ turn[t].docId # 0 => store[turn[t].docId].conversationId = turn[t].conv

\* C11: a turn in which a middleware failed does not resolve, no middleware is
\* started in a turn once one of its middlewares has failed, and no pipeline
\* index is invoked a second time.
C11_FailurePropagates ==
  \A t \in Turns : \A i \in 1..MaxPipeline :
    /\ turn[t].frames[i].status = "failed" => turn[t].pc # "done"
    /\ ~turn[t].frames[i].afterFailure
    /\ turn[t].frames[i].runs <= 1

\* the middleware invocations turn t has started are exactly the pipeline
\* indexes below currentMiddlewareIndex, each once, in index order, each of the
\* function registered at that index; the first was started by the dispatcher
C12_InOrder(t) ==
  /\ \A i \in 1..MaxPipeline :
       IF i <= turn[t].idx
         THEN /\ i <= Len(pipeline)
              /\ turn[t].frames[i].fn = pipeline[i]
              /\ turn[t].frames[i].seq = i
              /\ turn[t].frames[i].runs = 1
         ELSE turn[t].frames[i].runs = 0
  /\ hist[t].pipeAtDispatch > 0 =>
       turn[t].idx >= 1 /\ turn[t].frames[1].startedAt = 0
  /\ hist[t].pipeAtDispatch < 0 => turn[t].idx = 0

\* every middleware turn t has started has invoked next exactly once
C12_EachNextOnce(t) ==
  /\ hist[t].pipeAtDispatch >= 0
  /\ \A i \in 1..turn[t].idx : turn[t].frames[i].calls = 1

\* C12: use(m) appends m to the pipeline and changes nothing else of the
\* dispatcher; the middlewares of a turn start in registration order from
\* index 0, whatever earlier turns did; and in a turn where every middleware
\* has invoked next exactly once, every registration the dispatcher found in
\* the pipeline has started exactly once (a function registered twice, twice).
C12_RegistrationOrder ==
  /\ [](\A t \in Turns :
          /\ C12_InOrder(t)
          /\ C12_EachNextOnce(t) => turn[t].idx >= hist[t].pipeAtDispatch)
  /\ [][ pipeline' # pipeline =>
           /\ \E m \in Middlewares : pipeline' = Append(pipeline, m)
           /\ mongo' = mongo ]_vars

\* a second or later turn that has run the pipeline f, g, f to its end, every
\* middleware having invoked next once
C12_Witness ==
  \E t \in Turns :
    /\ messages >= 2 /\ turn[t].pc = "done"
    /\ pipeline = <<"f", "g", "f">>
    /\ hist[t].pipeAtDispatch = 3
    /\ \A i \in 1..3 : /\ turn[t].frames[i].calls = 1
                       /\ turn[t].frames[i].status = "done"

\* C13: a create for a conversation id that already has a record is
\* rejected and leaves the store as it is.
C13_CreateExistingRejected ==
  [][ \A t \in Turns :
        turn[t].pc = "creating" /\ Matching(turn[t].conv) # {}
          /\ turn'[t].pc \in {"created", "failed"}
        => store' = store /\ turn'[t].pc = "failed" ]_vars

\* C14: at most one middleware of a turn is executing, and a middleware that
\* is executing has no later middleware of its turn still unfinished.
C14_OneAtATime ==
  \A t \in Turns :
    /\ Cardinality(Running(t)) <= 1
    /\ \A i \in Running(t) : \A j \in 1..MaxPipeline :
         j > i => turn[t].frames[j].status \notin {"running", "waiting"}

\* no onMessage call is in flight
Quiescent == \A t \in Turns : Free(t)

\* C15: the persisted messageCount of a record never decreases, and once no
\* turn is in flight every record of a conversation holds, as messageCount,
\* the number of dispatcher saves of that conversation that succeeded.
C15_MessageCountExact ==
  /\ [](Quiescent =>
          \A c \in ConvIds : \A i \in Matching(c) :
            PersistedMessageCount(store[i]) = Num(saveCount[c]))
  /\ [][ \A i \in 1..Len(store) :
           PersistedMessageCount(store[i]).kind = "number" =>
             /\ PersistedMessageCount(store'[i]).kind = "number"
             /\ PersistedMessageCount(store'[i]).val >=
                  PersistedMessageCount(store[i]).val ]_vars

\* C16: a turn whose promise has settled has no middleware running or
\* suspended and makes no session write afterwards, and a persistence-enabled
\* turn has started no middleware before its dispatcher save succeeded.
C16_TerminalAndOrdered ==
  /\ [](\A t \in Turns :
          /\ turn[t].pc \in {"done", "failed"} =>
               Running(t) \cup Waiting(t) = {}
          /\ hist[t].enabledAtStart /\ hist[t].saves = 0 => turn[t].idx = 0)
  /\ [][ \A t \in Turns :
           turn[t].pc \in {"done", "failed"} /\ turn'[t].pc = turn[t].pc
             => ~MwSave(t) /\ ~(\E n \in AssignValues : MwAssign(t, n)) ]_vars

\* C17: the createdAt of a record never changes, every save of a record, by
\* the dispatcher or by a middleware, leaves its updatedAt at the time of the
\* save, and updatedAt is never earlier than createdAt.
C17_Timestamps ==
  /\ [](\A i \in 1..Len(store) : store[i].updatedAt >= store[i].createdAt)
  /\ [][ \A i \in 1..Len(store) :
           /\ store'[i].createdAt = store[i].createdAt
           /\ \A t \in Turns :
                turn[t].docId = i /\ (Save(t) \/ MwSave(t))
                  => store'[i].updatedAt = now ]_vars

\* the fields of sessionSchema
SchemaFields ==
  {"conversationId", "consecutiveNotUnderstand", "createdAt", "updatedAt"}

\* C18: no record of the store ever holds the snapshot; the snapshot a turn
\* holds is the counter of the record as that turn resolved it; and a save, by
\* the dispatcher or by a middleware, writes the record with the in-memory
\* counter and nothing else changed.
C18_SnapshotTransient ==
  /\ [](/\ \A i \in 1..Len(store) : DOMAIN store[i] = SchemaFields
        /\ \A t \in Sessions : turn[t].prev = Num(hist[t].readCnu))
  /\ [][ \A t \in Sessions :
           Save(t) \/ MwSave(t) =>
             store'[turn[t].docId] =
               [store[turn[t].docId] EXCEPT
                  !.consecutiveNotUnderstand = turn[t].cnu] ]_vars

\* a turn that resolved a stored counter of 2, holds 2 as its snapshot, and
\* whose dispatcher save has written the reset counter
C18_Witness ==
  \E t \in Sessions :
    /\ turn[t].prev = Num(2) /\ hist[t].saves = 1
    /\ hist[t].created = 0
    /\ store[turn[t].docId].consecutiveNotUnderstand = 0

\* C19: every middleware invocation of a turn was handed the context of that
\* turn (its message and its session); the indexes a turn has run are those
\* below its own currentMiddlewareIndex, each once and in order, as when it
\* runs alone; and a step of one turn leaves the chain position and the
\* invocations of every other turn as they were.
C19_TurnIsolation ==
  /\ [](\A t \in Turns :
          /\ C12_InOrder(t)
          /\ \A i \in 1..turn[t].idx :
               /\ turn[t].frames[i].msg = turn[t].conv
               /\ turn[t].frames[i].session = turn[t].docId)
  /\ [][ \A t, u \in Turns :
           t # u /\ turn'[t] # turn[t] =>
             /\ turn'[u].idx = turn[u].idx
             /\ turn'[u].frames = turn[u].frames
             /\ turn'[u].conv = turn[u].conv
             /\ turn'[u].docId = turn[u].docId ]_vars

\* two turns of different conversations in flight together, one at its first
\* middleware and the other, begun earlier, already past its second
C19_Witness ==
  \E t, u \in Turns :
    /\ turn[t].conv # turn[u].conv
    /\ turn[t].pc = "chain" /\ turn[u].pc = "chain"
    /\ turn[t].idx = 1 /\ turn[u].idx = 2
    /\ turn[t].frames[1].status = "running"
    /\ turn[u].frames[2].status = "running"

\* C20: a call with body.text set and no body.message that has finished has
\* invoked the callback exactly once; with a null result or an empty reply
\* from the NLU call it was the "no reply" success form; and the error form
\* was used only when the NLU call itself failed.
C20_TextEntrypoint ==
  \A k \in 1..MaxEntryCalls :
    entry[k].body = "text" /\ entry[k].pc \in {"done", "rejected"} =>
      /\ Len(entry[k].log) = 1
      /\ entry[k].nlu \in {"null", "empty"} => entry[k].log[1] = "noReply"
      /\ entry[k].log[1] = "error" => entry[k].nlu = "threw"

====
